---- MODULE Spec2Model ----
(***************************************************************************)
(* A model of tzelynn/hdb-sbf:                                             *)
(*   - src/utils/add_mrt_proximity.py: the batch driver (__main__) and     *)
(*     process_csv with its three external calls (get_nearest_mrt,         *)
(*     get_route_info_walk, get_route_info_pt);                            *)
(*   - src/app.py: parse_floor_data and get_total_units_from_floor_data.   *)
(*                                                                         *)
(* Strings are sequences of one-character strings.  Distances and minutes  *)
(* that the code rounds to one decimal place are kept in tenths.           *)
(* A Python call either returns a value or raises: Return(v) / Raise(e).   *)
(***************************************************************************)
EXTENDS Integers, Sequences, FiniteSets, TLC

(* ----------------------------- bounds --------------------------------- *)

\* most listings (rows) in one estate table
MaxRows == 2

\* most runs of the script, one after the other
MaxRuns == 2

\* longest arbitrary floor-data string
MaxLen == 4

\* most segments in a generated well-formed floor-data string
MaxSegs == 3

(* ------------------------- Python values ------------------------------ *)

None == [kind |-> "None"]

Return(v) == [tag |-> "return", value |-> v]

Raise(e) == [tag |-> "raise", exc |-> e]

\* dict.get(key, default)
Get(d, key, default) == IF key \in DOMAIN d THEN d[key] ELSE default

\* the JSON object {}
EmptyDict == [k \in {} |-> 0]

(* ------------------------------ paths --------------------------------- *)

by_estate == <<"b", "y", "_", "e", "s", "t", "a", "t", "e">>

by_estate_mrt == by_estate \o <<"_", "m", "r", "t">>

by_estate_dir == <<"d", "a", "t", "a", "/">> \o by_estate

\* by_estate_dir.rglob('*.csv'), in the order the directory walk yields them
EstateFiles ==
  << by_estate_dir \o <<"/", "a", ".", "c", "s", "v">>,
     by_estate_dir \o <<"/">> \o by_estate \o <<"2", ".", "c", "s", "v">> >>

StartsWith(s, i, old) ==
  /\ i + Len(old) - 1 <= Len(s)
  /\ SubSeq(s, i, i + Len(old) - 1) = old

RECURSIVE ReplaceFrom(_, _, _, _)
ReplaceFrom(s, i, old, new) ==
  IF i > Len(s) THEN <<>>
  ELSE IF StartsWith(s, i, old)
       THEN new \o ReplaceFrom(s, i + Len(old), old, new)
       ELSE <<s[i]>> \o ReplaceFrom(s, i + 1, old, new)

\* str.replace(old, new): every non-overlapping occurrence, left to right
StrReplace(s, old, new) == ReplaceFrom(s, 1, old, new)

output_file(input_file) == StrReplace(input_file, by_estate, by_estate_mrt)

RECURSIVE LastSlash(_, _)
LastSlash(p, i) == IF i = 0 \/ p[i] = "/" THEN i ELSE LastSlash(p, i - 1)

\* Path(p).parent
Parent(p) == SubSeq(p, 1, LastSlash(p, Len(p)) - 1)

FileIds == 1..Len(EstateFiles)

\* the paths the run may write, and for each the slot of fs and of dirs that
\* stands for it: the first estate file with that output path
OutputFiles == {output_file(EstateFiles[i]) : i \in FileIds}

FileAt(path) == CHOOSE k \in FileIds : output_file(EstateFiles[k]) = path

Slots == {FileAt(p) : p \in OutputFiles}

\* the slots whose file lies in directory dir
InDir(dir) == {k \in Slots : Parent(output_file(EstateFiles[k])) = dir}

NoFile == [kind |-> "NoFile"]

(* ------------------------ external responses -------------------------- *)

\* requests.get raised (timeout, connection error)
TransportError == [kind |-> "error"]

Http(status, body) == [kind |-> "http", status |-> status, body |-> body]

\* a body on which response.json() raises
Malformed == [kind |-> "malformed"]

Json(v) == [kind |-> "json", value |-> v]

\* one candidate of getNearestMrtStops; haversine_distance of the listing to
\* it, rounded to one decimal, is carried as distance_10 (tenths of a metre)
Station == [name |-> "BISHAN MRT", id |-> "NS17", distance_10 |-> 3505]

NearbyResponses ==
  { TransportError,
    Http(500, Malformed),
    Http(200, Malformed),
    Http(200, Json(<<>>)),
    Http(200, Json(<<Station>>)) }

WalkResponses ==
  { TransportError,
    Http(500, Malformed),
    Http(200, Malformed),
    Http(200, Json(EmptyDict)),
    Http(200, Json([route_summary |-> [total_distance |-> 420, total_time |-> 270]])) }

PtResponses ==
  { TransportError,
    Http(500, Malformed),
    Http(200, Malformed),
    Http(200, Json(EmptyDict)),
    Http(200, Json([plan |-> EmptyDict])),
    Http(200, Json([plan |-> [itineraries |-> <<>>]])),
    Http(200, Json([plan |-> [itineraries |-> <<[duration |-> 540]>>]])) }

\* round(seconds / 60, 1), in tenths of a minute (the durations used are
\* multiples of 6 seconds, so no tie is rounded)
RoundMinutes10(seconds) == (seconds * 10 + 30) \div 60

\* round(metres, 1), in tenths of a metre
Round10(metres) == metres * 10

(* --------------------------- the state -------------------------------- *)

VARIABLES
  token_file,    \* whether .onemap_token exists
  nrows,         \* nrows[i]: number of listings in EstateFiles[i]
  fs,            \* the files under data/by_estate_mrt: fs[FileAt(path)]
  dirs,          \* the slots whose parent directory mkdir has created
  run,           \* number of the current run of the script
  pc,            \* where the current run is
  error,         \* the uncaught exception that ended the run, or ""
  file_i,        \* position of the for-loop of __main__ in EstateFiles
  df,            \* process_csv: the table being enriched
  idx,           \* process_csv: the row of the for-loop (1-based)
  nearest_mrt,   \* process_csv: result of get_nearest_mrt for this row
  loads,         \* this run: tables loaded by pd.read_csv
  calls,         \* this run: external calls made
  writes,        \* this run: output files written by df.to_csv
  fs_at_start,   \* fs when this run started
  prev_end,      \* how the previous run ended: "none", "exit", "crashed"
  row_calls,     \* history: the external calls made for the current row
  no_station,    \* history: the rows of df whose lookup found no station
  floor_str,     \* parser: the argument (a string, or NaN)
  cut,           \* parser: position of a ';' of floor_str, or 0
  segs,          \* parser: the segments floor_str was formatted from
  ppc,           \* parser: "input", "parsed", "totalled"
  parsed,        \* parser: outcome of parse_floor_data(floor_str)
  total,         \* parser: outcome of get_total_units_from_floor_data(floor_str)
  total_a,       \* parser: the same for floor_str before cut
  total_b        \* parser: the same for floor_str after cut

driver_vars ==
  << token_file, nrows, fs, dirs, run, pc, error, file_i, df, idx,
     nearest_mrt, loads, calls, writes, fs_at_start, prev_end, row_calls,
     no_station >>

parser_vars == << floor_str, cut, segs, ppc, parsed, total, total_a, total_b >>

vars == << driver_vars, parser_vars >>

(* --------------------- the three external calls ----------------------- *)

\* lines 78-79: the handler of get_nearest_mrt prints and falls through
nearest_mrt_except == Return(None)

\* mutant: an empty candidate list yields a placeholder station, not None
get_nearest_mrt_mut(response) ==
  IF response.kind = "error" THEN nearest_mrt_except
  ELSE IF response.status # 200 THEN Return(None)
  ELSE IF response.body.kind = "malformed" THEN nearest_mrt_except
  ELSE LET mrt_stations == response.body.value
           nearest == IF Len(mrt_stations) = 0 THEN EmptyDict ELSE mrt_stations[1]
       IN  Return([kind |-> "dict",
                   name |-> Get(nearest, "name", "Unknown MRT"),
                   code |-> Get(nearest, "id", ""),
                   distance_10 |-> Get(nearest, "distance_10", 0)])

get_nearest_mrt(response) ==
  IF response.kind = "error" THEN nearest_mrt_except
  ELSE IF response.status # 200 THEN Return(None)
  ELSE IF response.body.kind = "malformed" THEN nearest_mrt_except
  ELSE LET mrt_stations == response.body.value IN
       IF Len(mrt_stations) = 0 THEN Return(None)
       ELSE LET nearest == mrt_stations[1] IN
            Return([kind |-> "dict",
                    name |-> Get(nearest, "name", "Unknown MRT"),
                    code |-> Get(nearest, "id", ""),
                    distance_10 |-> nearest.distance_10])

\* lines 111-112 and 143-144: the handler formats route_type, a name that is
\* bound nowhere, so the handler itself raises NameError
route_info_except == Raise("NameError")

\* mutant: data['route_summary'] in place of data.get('route_summary', {})
get_route_info_walk_mut(response) ==
  IF response.kind = "error" THEN route_info_except
  ELSE IF response.status # 200 THEN Return(None)
  ELSE IF response.body.kind = "malformed" THEN route_info_except
  ELSE LET data == response.body.value IN
       IF "route_summary" \notin DOMAIN data THEN route_info_except
       ELSE LET route_summary == data.route_summary IN
            Return([kind |-> "dict",
                    distance_meters |-> Get(route_summary, "total_distance", 0),
                    duration_seconds |-> Get(route_summary, "total_time", 0),
                    duration_minutes_10 |->
                      RoundMinutes10(Get(route_summary, "total_time", 0))])

get_route_info_walk(response) ==
  IF response.kind = "error" THEN route_info_except
  ELSE IF response.status # 200 THEN Return(None)
  ELSE IF response.body.kind = "malformed" THEN route_info_except
  ELSE LET data == response.body.value
           route_summary == Get(data, "route_summary", EmptyDict)
       IN  Return([kind |-> "dict",
                   distance_meters |-> Get(route_summary, "total_distance", 0),
                   duration_seconds |-> Get(route_summary, "total_time", 0),
                   duration_minutes_10 |->
                     RoundMinutes10(Get(route_summary, "total_time", 0))])

get_route_info_pt(response) ==
  IF response.kind = "error" THEN route_info_except
  ELSE IF response.status # 200 THEN Return(None)
  ELSE IF response.body.kind = "malformed" THEN route_info_except
  ELSE LET data == response.body.value IN
       \* data['plan']['itineraries'][0]: KeyError or IndexError, caught
       IF "plan" \notin DOMAIN data THEN route_info_except
       ELSE IF "itineraries" \notin DOMAIN data.plan THEN route_info_except
       ELSE IF Len(data.plan.itineraries) = 0 THEN route_info_except
       ELSE LET itinerary == data.plan.itineraries[1] IN
            Return([kind |-> "dict",
                    duration_seconds |-> Get(itinerary, "duration", 0),
                    duration_minutes_10 |->
                      RoundMinutes10(Get(itinerary, "duration", 0))])

(* --------------------------- process_csv ------------------------------ *)

\* lines 158-163: the six new columns of a row
DefaultRow ==
  [ Nearest_MRT |-> "", MRT_Station_Code |-> "", MRT_Distance_m |-> 0,
    Walk_Distance_m |-> 0, Walk_Duration_min |-> 0, bus_duration_min |-> 0 ]

input_file == EstateFiles[file_i]

\* mutant: Path(output_file).is_dir() in place of .exists()
OutputExists_mut(path) == InDir(path) # {} /\ InDir(path) \subseteq dirs

\* line 234: Path(output_file).exists()
OutputExists(path) == fs[FileAt(path)].kind # "NoFile"

\* an uncaught exception ends the run; the locals of process_csv are gone
Crash(e) ==
  /\ pc' = "crashed"
  /\ error' = e
  /\ df' = <<>>
  /\ idx' = 0
  /\ nearest_mrt' = None
  /\ no_station' = {}

\* lines 229-236: an estate file whose output exists is skipped
MainSkip ==
  /\ pc = "main"
  /\ file_i <= Len(EstateFiles)
  /\ OutputExists(output_file(input_file))
  /\ dirs' = dirs \cup InDir(Parent(output_file(input_file)))
  /\ file_i' = file_i + 1
  /\ UNCHANGED << token_file, nrows, fs, run, pc, error, df, idx, nearest_mrt,
                  loads, calls, writes, fs_at_start, prev_end, row_calls, no_station,
                  parser_vars >>

\* mutant: a missing token file is tolerated (the token read as empty)
MainProcess_mut ==
  /\ pc = "main"
  /\ file_i <= Len(EstateFiles)
  /\ ~OutputExists(output_file(input_file))
  /\ dirs' = dirs \cup InDir(Parent(output_file(input_file)))
  /\ loads' = loads + 1
  /\ df' = [i \in 1..nrows[file_i] |-> DefaultRow]
  /\ idx' = 1
  /\ nearest_mrt' = None
  /\ no_station' = {}
  /\ pc' = IF nrows[file_i] = 0 THEN "save" ELSE "lookup"
  /\ error' = error
  /\ UNCHANGED << token_file, nrows, fs, run, file_i, calls, writes,
                  fs_at_start, prev_end, row_calls, parser_vars >>

\* lines 229-237 and 151-166: the file is handed to process_csv, which loads
\* the table, then reads the token, adds the columns and enters its loop
MainProcess ==
  /\ pc = "main"
  /\ file_i <= Len(EstateFiles)
  /\ ~OutputExists(output_file(input_file))
  /\ dirs' = dirs \cup InDir(Parent(output_file(input_file)))
  /\ loads' = loads + 1
  /\ IF ~token_file
     THEN Crash("FileNotFoundError")
     ELSE /\ df' = [i \in 1..nrows[file_i] |-> DefaultRow]
          /\ idx' = 1
          /\ nearest_mrt' = None
          /\ no_station' = {}
          /\ pc' = IF nrows[file_i] = 0 THEN "save" ELSE "lookup"
          /\ error' = error
  /\ UNCHANGED << token_file, nrows, fs, run, file_i, calls, writes,
                  fs_at_start, prev_end, row_calls, parser_vars >>

\* line 229: the for-loop of __main__ is exhausted
MainExit ==
  /\ pc = "main"
  /\ file_i > Len(EstateFiles)
  /\ pc' = "exit"
  /\ UNCHANGED << token_file, nrows, fs, dirs, run, error, file_i, df, idx,
                  nearest_mrt, loads, calls, writes, fs_at_start, prev_end,
                  row_calls, no_station,
                  parser_vars >>

\* mutant: a lookup that found no station is tried again
Lookup_mut ==
  /\ pc = "lookup"
  /\ \E response \in NearbyResponses :
       LET r == get_nearest_mrt(response) IN
       /\ calls' = calls + 1
       /\ row_calls' = Append(row_calls, [stage |-> "lookup", response |-> response])
       /\ nearest_mrt' = r.value
       /\ IF r.value.kind # "None"
          THEN /\ df' = [df EXCEPT ![idx].Nearest_MRT = r.value.name,
                                   ![idx].MRT_Station_Code = r.value.code,
                                   ![idx].MRT_Distance_m = r.value.distance_10]
               /\ no_station' = no_station
               /\ pc' = "walk"
          ELSE /\ df' = df
               /\ no_station' = no_station
               /\ pc' = "lookup"
  /\ UNCHANGED << token_file, nrows, fs, dirs, run, error, file_i, idx, loads,
                  writes, fs_at_start, prev_end, parser_vars >>

\* lines 174-181 and 199-200
Lookup ==
  /\ pc = "lookup"
  /\ \E response \in NearbyResponses :
       LET r == get_nearest_mrt(response) IN
       /\ calls' = calls + 1
       /\ row_calls' = Append(row_calls, [stage |-> "lookup", response |-> response])
       /\ nearest_mrt' = r.value
       /\ IF r.value.kind # "None"
          THEN /\ df' = [df EXCEPT ![idx].Nearest_MRT = r.value.name,
                                   ![idx].MRT_Station_Code = r.value.code,
                                   ![idx].MRT_Distance_m = r.value.distance_10]
               /\ no_station' = no_station
               /\ pc' = "walk"
          ELSE /\ df' = df
               /\ no_station' = no_station \cup {idx}
               /\ pc' = "sleep"
  /\ UNCHANGED << token_file, nrows, fs, dirs, run, error, file_i, idx, loads,
                  writes, fs_at_start, prev_end, parser_vars >>

\* mutant: the public-transport call follows the walk call at once
Walk_mut ==
  /\ pc = "walk"
  /\ \E response \in WalkResponses :
       LET walk_route == get_route_info_walk(response) IN
       /\ calls' = calls + 1
       /\ row_calls' = Append(row_calls, [stage |-> "walk", response |-> response])
       /\ IF walk_route.tag = "raise"
          THEN Crash(walk_route.exc)
          ELSE IF walk_route.value.kind = "None"
          THEN Crash("TypeError")    \* walk_route['distance_meters'] on None
          ELSE /\ df' = [df EXCEPT
                    ![idx].Walk_Distance_m = Round10(walk_route.value.distance_meters),
                    ![idx].Walk_Duration_min = walk_route.value.duration_minutes_10]
               /\ pc' = "pt"
               /\ UNCHANGED << error, idx, nearest_mrt, no_station >>
  /\ UNCHANGED << token_file, nrows, fs, dirs, run, file_i, loads, writes,
                  fs_at_start, prev_end, parser_vars >>

\* lines 184-188
Walk ==
  /\ pc = "walk"
  /\ \E response \in WalkResponses :
       LET walk_route == get_route_info_walk(response) IN
       /\ calls' = calls + 1
       /\ row_calls' = Append(row_calls, [stage |-> "walk", response |-> response])
       /\ IF walk_route.tag = "raise"
          THEN Crash(walk_route.exc)
          ELSE IF walk_route.value.kind = "None"
          THEN Crash("TypeError")    \* walk_route['distance_meters'] on None
          ELSE /\ df' = [df EXCEPT
                    ![idx].Walk_Distance_m = Round10(walk_route.value.distance_meters),
                    ![idx].Walk_Duration_min = walk_route.value.duration_minutes_10]
               /\ pc' = "sleep_pt"
               /\ UNCHANGED << error, idx, nearest_mrt, no_station >>
  /\ UNCHANGED << token_file, nrows, fs, dirs, run, file_i, loads, writes,
                  fs_at_start, prev_end, parser_vars >>

\* line 192: time.sleep(0.5) before the public-transport call
SleepPt ==
  /\ pc = "sleep_pt"
  /\ pc' = "pt"
  /\ UNCHANGED << token_file, nrows, fs, dirs, run, error, file_i, df, idx,
                  nearest_mrt, loads, calls, writes, fs_at_start, prev_end,
                  row_calls, no_station,
                  parser_vars >>

\* lines 193-198
Pt ==
  /\ pc = "pt"
  /\ \E response \in PtResponses :
       LET pt_route == get_route_info_pt(response) IN
       /\ calls' = calls + 1
       /\ row_calls' = Append(row_calls, [stage |-> "pt", response |-> response])
       /\ IF pt_route.tag = "raise"
          THEN Crash(pt_route.exc)
          ELSE IF pt_route.value.kind = "None"
          THEN Crash("TypeError")    \* pt_route['duration_minutes'] on None
          ELSE /\ df' = [df EXCEPT
                    ![idx].bus_duration_min = pt_route.value.duration_minutes_10]
               /\ pc' = "sleep"
               /\ UNCHANGED << error, idx, nearest_mrt, no_station >>
  /\ UNCHANGED << token_file, nrows, fs, dirs, run, file_i, loads, writes,
                  fs_at_start, prev_end, parser_vars >>

\* line 203 and the step of the for-loop at line 166
Sleep ==
  /\ pc = "sleep"
  /\ IF idx < Len(df)
     THEN /\ idx' = idx + 1
          /\ pc' = "lookup"
     ELSE /\ idx' = idx
          /\ pc' = "save"
  /\ nearest_mrt' = None
  /\ row_calls' = <<>>
  /\ UNCHANGED << token_file, nrows, fs, dirs, run, error, file_i, df, loads,
                  calls, writes, fs_at_start, prev_end, no_station,
                  parser_vars >>

\* lines 206-208: df.to_csv(output_file) creates the file and writes the
\* rows in order; an I/O error while writing (OSError, e.g. a full disk) is
\* not caught and leaves the rows written so far in the file
Save ==
  /\ pc = "save"
  /\ writes' = writes + 1
  /\ \/ /\ fs' = [fs EXCEPT ![FileAt(output_file(input_file))] =
                           [kind |-> "csv", rows |-> df]]
        /\ pc' = "summary"
        /\ UNCHANGED << error, df, idx, nearest_mrt, no_station >>
     \/ \E written \in 0..(Len(df) - 1) :
          /\ fs' = [fs EXCEPT ![FileAt(output_file(input_file))] =
                             [kind |-> "csv", rows |-> SubSeq(df, 1, written)]]
          /\ Crash("OSError")
  /\ UNCHANGED << token_file, nrows, dirs, run, file_i, loads, calls,
                  fs_at_start, prev_end, row_calls, parser_vars >>

\* lines 211-223: the summary; idxmin() of an empty column raises ValueError
Summary ==
  /\ pc = "summary"
  /\ IF Len(df) = 0
     THEN /\ Crash("ValueError")
          /\ file_i' = file_i
     ELSE /\ pc' = "main"
          /\ file_i' = file_i + 1
          /\ df' = <<>>
          /\ idx' = 0
          /\ nearest_mrt' = None
          /\ no_station' = {}
          /\ error' = error
  /\ UNCHANGED << token_file, nrows, fs, dirs, run, loads, calls, writes,
                  fs_at_start, prev_end, row_calls, parser_vars >>

\* the script is started again; in between, the operator may have removed
\* output files and created or removed the token file
StartRun ==
  /\ pc \in {"exit", "crashed"}
  /\ run < MaxRuns
  /\ run' = run + 1
  /\ prev_end' = pc
  /\ token_file' \in BOOLEAN
  /\ \E removed \in SUBSET Slots :
       fs' = [k \in Slots |-> IF k \in removed THEN NoFile ELSE fs[k]]
  /\ fs_at_start' = fs'
  /\ pc' = "main"
  /\ error' = ""
  /\ file_i' = 1
  /\ df' = <<>>
  /\ idx' = 0
  /\ nearest_mrt' = None
  /\ loads' = 0
  /\ calls' = 0
  /\ writes' = 0
  /\ row_calls' = <<>>
  /\ no_station' = {}
  /\ UNCHANGED << nrows, dirs, parser_vars >>

(* ------------------- claims about the batch driver -------------------- *)

\* the call did not deliver a response body: requests.get raised (timeout,
\* transport error), the status is not 200, or the body is not JSON
CallFailed(response) ==
  \/ response.kind = "error"
  \/ response.status # 200
  \/ response.body.kind = "malformed"

\* a 200 JSON response of the stage that lacks the keys the stage reads
MissingKeys(call) ==
  /\ ~CallFailed(call.response)
  /\ LET data == call.response.body.value IN
     \/ call.stage = "walk" /\ "route_summary" \notin DOMAIN data
     \/ /\ call.stage = "pt"
        /\ \/ "plan" \notin DOMAIN data
           \/ "itineraries" \notin DOMAIN data.plan

\* C1: a failed external call (timeout or transport error, non-200 status,
\* malformed JSON, missing expected keys) at any of the three stages never
\* aborts the batch: the run is never ended by an uncaught error while the
\* current listing has such a call behind it.
C1_CallFailureNeverAborts ==
  \A i \in 1..Len(row_calls) :
    (CallFailed(row_calls[i].response) \/ MissingKeys(row_calls[i]))
      => pc # "crashed"

\* the failures of the walk-routing call that C2 names
WalkFailed(response) == response.kind = "error" \/ response.status # 200

\* C2: after a successful station lookup, when the walk-routing call fails
\* (transport error, timeout, non-200), the walking distance and duration of
\* the listing stay 0 and the public-transit call of the listing is made:
\* control is at the throttle before it, at the call, or past it.
C2_WalkFailureKeepsGoing ==
  (Len(row_calls) >= 2 /\ WalkFailed(row_calls[2].response))
    => /\ pc \in {"sleep_pt", "pt", "sleep"}
       /\ pc = "sleep" => Len(row_calls) = 3
       /\ df[idx].Walk_Distance_m = 0
       /\ df[idx].Walk_Duration_min = 0

\* the failures of the public-transit call that C3 names
PtFailed(call) == CallFailed(call.response) \/ MissingKeys(call)

\* C3: after a successful station lookup, when the public-transit call fails
\* (transport error, non-200, no plan/itineraries), the transit duration of
\* the listing stays 0, its station and walking fields are kept, and
\* processing goes on to the next listing.
C3_PtFailureKeepsGoing ==
  (Len(row_calls) = 3 /\ PtFailed(row_calls[3]))
    => /\ pc = "sleep"
       /\ df[idx].bus_duration_min = 0
       /\ df[idx].Nearest_MRT = nearest_mrt.name
       /\ df[idx].MRT_Station_Code = nearest_mrt.code
       /\ df[idx].MRT_Distance_m = nearest_mrt.distance_10
       /\ LET walk_route == get_route_info_walk(row_calls[2].response).value IN
          /\ df[idx].Walk_Distance_m = Round10(walk_route.distance_meters)
          /\ df[idx].Walk_Duration_min = walk_route.duration_minutes_10

\* the lookup returned zero candidates or failed
LookupEmptyOrFailed(response) ==
  \/ CallFailed(response)
  \/ Len(response.body.value) = 0

\* C4: when the station lookup of a listing returns zero candidates or fails,
\* the six transit columns of the listing stay at their defaults, no
\* walk-routing or public-transit call is made for it, and the run is at the
\* delay that leads to the next listing (it has not raised); the row is
\* still at its defaults in the table and in the output file written from it.
C4_NoStationLeavesDefaults ==
  /\ (row_calls # <<>> /\ LookupEmptyOrFailed(row_calls[1].response))
       => /\ Len(row_calls) = 1
          /\ pc = "sleep"
          /\ nearest_mrt = None
          /\ df[idx] = DefaultRow
  /\ \A i \in no_station :
       /\ df[i] = DefaultRow
       /\ pc = "summary" => fs[FileAt(output_file(input_file))].rows[i] = DefaultRow

\* C4's case: a lookup with zero candidates was made for a listing that is
\* not the last of its table
C4_Witness ==
  /\ row_calls # <<>>
  /\ row_calls[1].response = Http(200, Json(<<>>))
  /\ pc = "sleep"
  /\ idx < Len(df)

\* a 200 JSON response of the walk-routing call without route_summary
NoRouteSummary(response) ==
  /\ ~CallFailed(response)
  /\ "route_summary" \notin DOMAIN response.body.value

\* C5: when the walk-routing call returns 200 with a JSON body that lacks
\* route_summary, the walking distance and duration of the listing are 0 and
\* the public-transit call of the listing is attempted: control is on its
\* way to that call, or the call has been made.
C5_NoRouteSummaryGivesZero ==
  (Len(row_calls) >= 2 /\ NoRouteSummary(row_calls[2].response))
    => /\ \/ Len(row_calls) = 2 /\ pc \in {"sleep_pt", "pt"}
          \/ Len(row_calls) = 3 /\ row_calls[3].stage = "pt"
       /\ pc \in {"sleep_pt", "pt", "sleep"}
            => /\ df[idx].Walk_Distance_m = 0
               /\ df[idx].Walk_Duration_min = 0

\* C5's case: after such a walk response the public-transit call was made
C5_Witness ==
  /\ Len(row_calls) = 3
  /\ NoRouteSummary(row_calls[2].response)
  /\ row_calls[3].stage = "pt"
  /\ pc = "sleep"

AllOutputsPresent(files) == \A p \in OutputFiles : files[FileAt(p)].kind # "NoFile"

\* C6: a run that follows a completed run and starts with every output file
\* present does no work: every input file is skipped, no table is loaded, no
\* external call is made, no output file is written or changed.
C6_SecondRunDoesNothing ==
  (run >= 2 /\ prev_end = "exit" /\ AllOutputsPresent(fs_at_start))
    => /\ pc \in {"main", "exit"}
       /\ loads = 0
       /\ calls = 0
       /\ writes = 0
       /\ fs = fs_at_start

\* C6's case: such a second run has gone through all the input files
C6_Witness ==
  /\ run = 2
  /\ prev_end = "exit"
  /\ AllOutputsPresent(fs_at_start)
  /\ pc = "exit"
  /\ \A i \in FileIds : nrows[i] > 0 /\ Len(fs[FileAt(output_file(EstateFiles[i]))].rows) = nrows[i]

C13_WrittenFileIsCompleted ==
  pc = "crashed"
    => LET out == fs[FileAt(output_file(input_file))] IN
       ~(out.kind = "csv" /\ Len(out.rows) = nrows[file_i])

\* C16: the output is written only after every listing of the table has gone
\* through the per-listing pipeline, and in every state, also after a run
\* that an uncaught error ended, an existing output file holds one row for
\* each listing of its input.
C16_OutputsAreComplete ==
  /\ pc = "save" => /\ row_calls = <<>>
                    /\ Len(df) = 0 \/ idx = Len(df)
  /\ \A k \in FileIds :
       LET out == fs[FileAt(output_file(EstateFiles[k]))] IN
       out.kind = "csv" => Len(out.rows) = nrows[k]

\* the calls made so far for the current listing are a prefix of lookup,
\* walk, pt; the walk call follows a lookup that found a station; outside
\* the loop over the listings no call is pending
RowCallsLinear ==
  /\ Len(row_calls) <= 3
  /\ \A i \in 1..Len(row_calls) : row_calls[i].stage = <<"lookup", "walk", "pt">>[i]
  /\ Len(row_calls) >= 2
       => get_nearest_mrt(row_calls[1].response).value.kind # "None"
  /\ pc \in {"main", "lookup", "save", "summary", "exit"} => row_calls = <<>>
  /\ pc = "walk" => Len(row_calls) = 1
  /\ pc \in {"sleep_pt", "pt"} => Len(row_calls) = 2
  /\ pc = "sleep" => Len(row_calls) \in {1, 3}

\* a step makes at most one call, which extends the calls of the current
\* listing; a listing is entered from the start of the table or from the end
\* of the listing before it, never again
RowCallsStep ==
  /\ (run' = run /\ calls' # calls)
       => /\ calls' = calls + 1
          /\ Len(row_calls') = Len(row_calls) + 1
          /\ SubSeq(row_calls', 1, Len(row_calls)) = row_calls
  /\ (run' = run /\ row_calls' # row_calls)
       => calls' = calls + 1 \/ (pc = "sleep" /\ row_calls' = <<>>)
  /\ (pc' = "lookup" /\ (pc # "lookup" \/ idx' # idx))
       => \/ pc = "main" /\ idx' = 1
          \/ pc = "sleep" /\ idx' = idx + 1 /\ file_i' = file_i

\* C14: per listing the external calls form a linear sequence without retry:
\* the lookup is made exactly once, the walk call at most once and only
\* after a lookup that found a station, the transit call at most once and
\* only after the walk call of the same listing, and no call of the next
\* listing is made before the calls of the current one are over.
C14_LinearCallSequence == [][RowCallsStep /\ RowCallsLinear']_vars

\* C14's case: the second listing of a table has had its three calls
C14_Witness ==
  /\ pc = "sleep"
  /\ idx = 2
  /\ Len(row_calls) = 3
  /\ calls >= 4

\* the step makes the external call of the given stage
IsCall(stage) ==
  /\ run' = run
  /\ calls' = calls + 1
  /\ Len(row_calls') = Len(row_calls) + 1
  /\ row_calls'[Len(row_calls')].stage = stage

\* control reaches the transit call only by the delay of line 192, which
\* makes no call and which only the walk call leads to; the transit call
\* leads to the delay of line 203 or ends the run; the step taken from that
\* delay makes no call, and a run that has ended makes none either
ThrottleStep ==
  /\ IsCall("pt") => pc = "pt" /\ pc' \in {"sleep", "crashed"}
  /\ (pc' = "pt" /\ pc # "pt") => pc = "sleep_pt" /\ calls' = calls
  /\ (pc' = "sleep_pt" /\ pc # "sleep_pt") => pc = "walk" /\ IsCall("walk")
  /\ pc = "sleep" => calls' = calls /\ pc' \in {"lookup", "save"}
  /\ pc = "crashed" => calls' = calls \/ run' # run

\* C15: every public-transit call is immediately preceded by a throttle
\* delay that follows the walk-routing call, and is followed by a throttle
\* delay before the next external call of the run.
C15_TransitCallIsThrottled == [][ThrottleStep]_vars

\* C15's case: a listing has had its transit call and the delay after it,
\* and the lookup of the next listing is about to be made
C15_Witness ==
  /\ pc = "lookup"
  /\ idx = 2
  /\ calls = 3
  /\ df[1].bus_duration_min # 0

(* ------------------- src/app.py: the floor-data parser ---------------- *)

\* the characters of the arbitrary floor-data strings
Chars == {"#", ":", ";", " ", "0", "1", "-", "x"}

DigitChars == <<"0", "1", "2", "3", "4", "5", "6", "7", "8", "9">>

IsDigit(c) == \E d \in 1..10 : DigitChars[d] = c

\* mutant: the digit's position in "0123456789" taken from 0 where it is from 1
DigitValue_mut(c) == (CHOOSE d \in 1..10 : DigitChars[d] = c) - 2

DigitValue(c) == (CHOOSE d \in 1..10 : DigitChars[d] = c) - 1

IsSpace(c) == c = " "

Str(chars) == [kind |-> "str", chars |-> chars]

NaN == [kind |-> "NaN"]

\* pd.isna
isna(v) == v.kind = "NaN"

Range(s) == {s[i] : i \in 1..Len(s)}

\* position of the first c in s from position i on, or 0
RECURSIVE Find(_, _, _)
Find(s, c, i) ==
  IF i > Len(s) THEN 0 ELSE IF s[i] = c THEN i ELSE Find(s, c, i + 1)

\* str.split(sep) for a one-character separator
RECURSIVE Split(_, _)
Split(s, sep) ==
  LET k == Find(s, sep, 1) IN
  IF k = 0 THEN <<s>>
  ELSE <<SubSeq(s, 1, k - 1)>> \o Split(SubSeq(s, k + 1, Len(s)), sep)

RECURSIVE LStrip(_)
LStrip(s) == IF s # <<>> /\ IsSpace(Head(s)) THEN LStrip(Tail(s)) ELSE s

RECURSIVE RStrip(_)
RStrip(s) ==
  IF s # <<>> /\ IsSpace(s[Len(s)]) THEN RStrip(SubSeq(s, 1, Len(s) - 1)) ELSE s

\* str.strip()
Strip(s) == RStrip(LStrip(s))

RECURSIVE DigitsValue(_, _)
DigitsValue(s, acc) ==
  IF s = <<>> THEN acc ELSE DigitsValue(Tail(s), acc * 10 + DigitValue(Head(s)))

\* int(text) of a str: surrounding whitespace, an optional sign, decimal
\* digits; anything else is ValueError
int(text) ==
  LET t == Strip(text)
      signed == t # <<>> /\ Head(t) \in {"+", "-"}
      digits == IF signed THEN Tail(t) ELSE t
  IN  IF digits = <<>> \/ \E i \in 1..Len(digits) : ~IsDigit(digits[i])
      THEN Raise("ValueError")
      ELSE IF signed /\ Head(t) = "-"
      THEN Return(0 - DigitsValue(digits, 0))
      ELSE Return(DigitsValue(digits, 0))

\* mutant: floors.insert(0, ...) in place of floors.append(...)
RECURSIVE parse_parts_mut(_, _)
parse_parts_mut(parts, floors) ==
  IF parts = <<>> THEN Return(floors)
  ELSE LET part == Strip(Head(parts)) IN
       IF ":" \notin Range(part) THEN parse_parts_mut(Tail(parts), floors)
       ELSE LET pieces == Split(part, ":") IN
            IF Len(pieces) # 2 THEN Raise("ValueError")
            ELSE LET floor_num == Strip(StrReplace(pieces[1], <<"#">>, <<>>))
                     count == int(Strip(pieces[2]))
                 IN  IF count.tag = "raise"
                     THEN parse_parts_mut(Tail(parts), floors)
                     ELSE parse_parts_mut(Tail(parts),
                            <<[floor |-> floor_num, count |-> count.value]>>
                              \o floors)

\* lines 52-61: the loop over the parts, floors being the list built so far
RECURSIVE parse_parts(_, _)
parse_parts(parts, floors) ==
  IF parts = <<>> THEN Return(floors)
  ELSE LET part == Strip(Head(parts)) IN
       IF ":" \notin Range(part) THEN parse_parts(Tail(parts), floors)
       ELSE LET pieces == Split(part, ":") IN
            \* floor_num, count = part.split(':') unpacks exactly two values
            IF Len(pieces) # 2 THEN Raise("ValueError")
            ELSE LET floor_num == Strip(StrReplace(pieces[1], <<"#">>, <<>>))
                     count == int(Strip(pieces[2]))
                 IN  IF count.tag = "raise"
                     THEN parse_parts(Tail(parts), floors)
                     ELSE parse_parts(Tail(parts),
                            Append(floors, [floor |-> floor_num,
                                            count |-> count.value]))

\* mutant: the pd.isna test is missing, so NaN (a float) reaches .split
parse_floor_data_mut(v) ==
  IF isna(v) THEN Raise("AttributeError")
  ELSE IF v.chars = <<>> THEN Return(<<>>)
  ELSE parse_parts(Split(v.chars, ";"), <<>>)

parse_floor_data(v) ==
  IF isna(v) \/ v.chars = <<>> THEN Return(<<>>)
  ELSE parse_parts(Split(v.chars, ";"), <<>>)

RECURSIVE SumCounts(_)
SumCounts(floors) ==
  IF floors = <<>> THEN 0 ELSE Head(floors).count + SumCounts(Tail(floors))

RECURSIVE SumSet(_)
SumSet(S) == IF S = {} THEN 0 ELSE LET x == CHOOSE y \in S : TRUE IN x + SumSet(S \ {x})

\* mutant: sum({f['count'] for f in floors}), a set where the code has a
\* generator, so equal counts are added once
get_total_units_from_floor_data_mut(v) ==
  LET floors == parse_floor_data(v) IN
  IF floors.tag = "raise" THEN floors
  ELSE Return(SumSet({floors.value[i].count : i \in 1..Len(floors.value)}))

get_total_units_from_floor_data(v) ==
  LET floors == parse_floor_data(v) IN
  IF floors.tag = "raise" THEN floors ELSE Return(SumCounts(floors.value))

ParserIdle ==
  /\ floor_str = Str(<<>>)
  /\ cut = 0
  /\ segs = <<>>
  /\ ppc = "idle"
  /\ parsed = None
  /\ total = None
  /\ total_a = None
  /\ total_b = None

Init ==
  /\ token_file \in BOOLEAN
  /\ nrows \in [FileIds -> 0..MaxRows]
  /\ fs = [k \in Slots |-> NoFile]
  /\ dirs = {}
  /\ run = 1
  /\ pc = "main"
  /\ error = ""
  /\ file_i = 1
  /\ df = <<>>
  /\ idx = 0
  /\ nearest_mrt = None
  /\ loads = 0
  /\ calls = 0
  /\ writes = 0
  /\ fs_at_start = fs
  /\ prev_end = "none"
  /\ row_calls = <<>>
  /\ no_station = {}
  /\ ParserIdle

Next ==
  \/ MainSkip
  \/ MainProcess
  \/ MainExit
  \/ Lookup
  \/ Walk
  \/ SleepPt
  \/ Pt
  \/ Sleep
  \/ Save
  \/ Summary
  \/ StartRun

Spec == Init /\ [][Next]_vars

(* -------------------- the parser's specification ---------------------- *)

RECURSIVE Strings(_)
Strings(n) ==
  IF n = 0 THEN {<<>>}
  ELSE LET shorter == Strings(n - 1) IN
       shorter \cup {Append(s, c) : s \in {t \in shorter : Len(t) = n - 1}, c \in Chars}

\* the segments of the generated well-formed strings "#<floor>:<count>"
Segments ==
  { [hash |-> h, pad |-> p, floor |-> fc[1], count |-> fc[2]] :
      h \in BOOLEAN, p \in BOOLEAN,
      fc \in { << <<"0", "5">>, 1 >>, << <<"0", "6">>, 12 >>, << <<"1", "2">>, 7 >> } }

RECURSIVE SegSeqs(_)
SegSeqs(n) ==
  IF n = 0 THEN {<<>>}
  ELSE LET shorter == SegSeqs(n - 1) IN
       shorter \cup {Append(s, g) : s \in {t \in shorter : Len(t) = n - 1}, g \in Segments}

\* str(n) of a natural number
RECURSIVE Decimal(_)
Decimal(n) ==
  IF n < 10 THEN <<DigitChars[n + 1]>>
  ELSE Decimal(n \div 10) \o <<DigitChars[(n % 10) + 1]>>

FormatSegment(g) ==
  LET sp == IF g.pad THEN <<" ">> ELSE <<>> IN
  sp \o (IF g.hash THEN <<"#">> ELSE <<>>) \o g.floor \o sp \o <<":">>
     \o sp \o Decimal(g.count) \o sp

\* the segments joined by ';'
RECURSIVE Format(_)
Format(gs) ==
  IF gs = <<>> THEN <<>>
  ELSE IF Len(gs) = 1 THEN FormatSegment(gs[1])
  ELSE FormatSegment(Head(gs)) \o <<";">> \o Format(Tail(gs))

\* the places a string can be cut at a ';' into a and b with a;b = the string
Cuts(v) ==
  IF isna(v) THEN {0}
  ELSE {0} \cup {i \in 1..Len(v.chars) : v.chars[i] = ";"}

part_a == Str(SubSeq(floor_str.chars, 1, cut - 1))

part_b == Str(SubSeq(floor_str.chars, cut + 1, Len(floor_str.chars)))

DriverIdle ==
  /\ token_file = TRUE
  /\ nrows = [i \in FileIds |-> 0]
  /\ fs = [k \in Slots |-> NoFile]
  /\ dirs = {}
  /\ run = 1
  /\ pc = "idle"
  /\ error = ""
  /\ file_i = 1
  /\ df = <<>>
  /\ idx = 0
  /\ nearest_mrt = None
  /\ loads = 0
  /\ calls = 0
  /\ writes = 0
  /\ fs_at_start = fs
  /\ prev_end = "none"
  /\ row_calls = <<>>
  /\ no_station = {}

ParserInit ==
  /\ DriverIdle
  /\ \/ /\ segs = <<>>
        /\ floor_str \in {NaN} \cup {Str(s) : s \in Strings(MaxLen)}
     \/ /\ segs \in SegSeqs(MaxSegs) \ {<<>>}
        /\ floor_str = Str(Format(segs))
  /\ cut \in Cuts(floor_str)
  /\ ppc = "input"
  /\ parsed = None
  /\ total = None
  /\ total_a = None
  /\ total_b = None

\* a caller evaluates parse_floor_data(floor_str)
ParseFloorData ==
  /\ ppc = "input"
  /\ parsed' = parse_floor_data(floor_str)
  /\ ppc' = "parsed"
  /\ UNCHANGED << driver_vars, floor_str, cut, segs, total, total_a, total_b >>

\* a caller evaluates get_total_units_from_floor_data on floor_str and, when
\* floor_str is cut into a and b, on a and on b
GetTotalUnits ==
  /\ ppc = "parsed"
  /\ total' = get_total_units_from_floor_data(floor_str)
  /\ total_a' = IF cut = 0 THEN None ELSE get_total_units_from_floor_data(part_a)
  /\ total_b' = IF cut = 0 THEN None ELSE get_total_units_from_floor_data(part_b)
  /\ ppc' = "totalled"
  /\ UNCHANGED << driver_vars, floor_str, cut, segs, parsed >>

ParserNext ==
  \/ ParseFloorData
  \/ GetTotalUnits

ParserSpec == ParserInit /\ [][ParserNext]_vars

(* ---------------------- claims about the parser ----------------------- *)

\* the entries C7 describes: each part is split on its first ':', the part
\* is dropped when it has no ':' or its count is not an integer
RECURSIVE FirstColonEntries(_)
FirstColonEntries(parts) ==
  IF parts = <<>> THEN <<>>
  ELSE LET part == Strip(Head(parts))
           k == Find(part, ":", 1)
           count == int(SubSeq(part, k + 1, Len(part)))
       IN  IF k = 0 \/ count.tag = "raise"
           THEN FirstColonEntries(Tail(parts))
           ELSE <<[floor |-> Strip(StrReplace(SubSeq(part, 1, k - 1), <<"#">>, <<>>)),
                   count |-> count.value]>>
                  \o FirstColonEntries(Tail(parts))

\* C7: parse_floor_data never raises for a string: each segment is split on
\* its first ':', segments without ':' or with a count that is no integer
\* (so also those with two or more ':') are dropped, the others are returned.
C7_NeverRaises ==
  (ppc # "input" /\ ~isna(floor_str))
    => /\ parsed.tag = "return"
       /\ parsed.value = FirstColonEntries(Split(floor_str.chars, ";"))

\* the entries a sequence of generated segments stands for
Entries(gs) == [i \in 1..Len(gs) |-> [floor |-> gs[i].floor, count |-> gs[i].count]]

\* C8: for a string of ';'-separated well-formed segments '#<floor>:<count>'
\* (optional whitespace), parse_floor_data returns one entry per segment, in
\* input order, with the segment's integer and its label without '#' and
\* surrounding whitespace.
C8_WellFormedParsesAll ==
  (ppc # "input" /\ segs # <<>>)
    => /\ parsed.tag = "return"
       /\ parsed.value = Entries(segs)

\* C8's case: several segments, padded and unpadded, with different counts
C8_Witness ==
  /\ ppc = "parsed"
  /\ Len(segs) = MaxSegs
  /\ segs[1].pad /\ segs[1].hash /\ ~segs[2].pad
  /\ segs[1].count # segs[2].count
  /\ Len(parsed.value) = MaxSegs

\* C9: for well-formed a and b, the total of a + ';' + b is the total of a
\* plus the total of b.
C9_TotalIsAdditive ==
  (ppc = "totalled" /\ segs # <<>> /\ cut > 0)
    => /\ total.tag = "return"
       /\ total_a.tag = "return"
       /\ total_b.tag = "return"
       /\ total.value = total_a.value + total_b.value

\* C9's case: a well-formed string cut into a of two segments and b of one,
\* with the totals computed
C9_Witness ==
  /\ ppc = "totalled"
  /\ Len(segs) = 3
  /\ floor_str.chars = Format(SubSeq(segs, 1, 2)) \o <<";">> \o Format(SubSeq(segs, 3, 3))
  /\ cut = Len(Format(SubSeq(segs, 1, 2))) + 1
  /\ segs[1].count = segs[3].count
  /\ total_a.value > segs[1].count
  /\ total_b.value > 0

\* C10 as stated: every returned entry has a non-negative count, and so every
\* total is non-negative.
C10_CountsNonNegative ==
  /\ (ppc # "input" /\ parsed.tag = "return")
       => \A i \in 1..Len(parsed.value) : parsed.value[i].count >= 0
  /\ (ppc = "totalled" /\ total.tag = "return") => total.value >= 0

\* C10 amended: the counts, and the total, are non-negative for every input
\* string without a '-' character (int() accepts a signed count).
C10_CountsNonNegativeUnlessSigned ==
  (~isna(floor_str) /\ "-" \notin Range(floor_str.chars))
    => /\ (ppc # "input" /\ parsed.tag = "return")
            => \A i \in 1..Len(parsed.value) : parsed.value[i].count >= 0
       /\ (ppc = "totalled" /\ total.tag = "return") => total.value >= 0

\* C10's case: an arbitrary string without '-' gave an entry, and a total
C10_Witness ==
  /\ ppc = "totalled"
  /\ segs = <<>>
  /\ ~isna(floor_str)
  /\ "-" \notin Range(floor_str.chars)
  /\ parsed.tag = "return"
  /\ Len(parsed.value) >= 1
  /\ parsed.value[1].count > 0
  /\ total.value > 0

\* C12: parse_floor_data returns an empty sequence, without error, for the
\* empty string and for a null/missing (NaN) input.
C12_EmptyOrNaNGivesEmpty ==
  (ppc # "input" /\ (isna(floor_str) \/ floor_str.chars = <<>>))
    => /\ parsed.tag = "return"
       /\ parsed.value = <<>>

\* C12's case: NaN was parsed
C12_Witness ==
  /\ ppc = "parsed"
  /\ isna(floor_str)
  /\ parsed.tag = "return"

====
